---------------------------- MODULE Spec2Model ----------------------------
(***************************************************************************)
(* Boolean retrieval (src/main.py): construction of the inverted index    *)
(* from a corpus of documents, and evaluation of infix boolean queries    *)
(* with two stacks.                                                        *)
(*                                                                         *)
(* Python strings are sequences of one-character strings, so that a term  *)
(* is built character by character as the code builds it.  Python sets    *)
(* are objects of a heap: `heap` is the sequence of all set objects and a  *)
(* reference is a position in it, so that aliasing and in-place mutation   *)
(* of a postings set are visible.                                          *)
(***************************************************************************)
EXTENDS Integers, Sequences, FiniteSets, TLC

VARIABLES
    corpus,          \* the documents handed to generate_inverted_index so far
    emitted,         \* the terms the last populate_inverted_index inserted, in order
    inverted_index,  \* InvertedIndex.inverted_index: term -> reference of its set
    heap,            \* the set objects: reference -> set of document ids
    built,           \* the index's contents when InvertedIndex() returned
    nqueries,        \* len(query_holder.queries)
    qi,              \* number of the query main's loop is at (0 before the loop)
    query,           \* the text of that query
    tokens,          \* query.split(), the argument of evaluate
    pos,             \* number of tokens the for loop of evaluate has consumed
    values,          \* QueryEvaluator.values: stack of references
    ops,             \* QueryEvaluator.ops: stack of operator tokens
    res,             \* the reference evaluate returned (0: none)
    stored,          \* the numbers of the queries whose result file was written
    pc               \* where the program is

vars == <<corpus, emitted, inverted_index, heap, built, nqueries, qi, query,
          tokens, pos, values, ops, res, stored, pc>>

evalVars == <<nqueries, qi, query, tokens, pos, values, ops, res, stored>>

---------------------------------------------------------------------------
(* Bounds *)

\* longest field text of a document in SpecIndex (the example text apart)
MaxLen == 1
\* most documents of a corpus in SpecIndex
MaxDocs == 2
\* documents of the corpus behind the index that Spec and SpecMain query
NDocs == 2
\* longest arbitrary (possibly malformed) token stream of a query
MaxTokens == 3
\* most operator groups of a well-formed query of Spec
MaxGroups == 2
\* most queries of a batch in SpecMain
MaxQueries == 2

---------------------------------------------------------------------------
(* Characters and strings *)

Letters == {"a", "b", "c", "X", "Y", "A", "N", "D", "O", "R", "T"}
Digits == {"1", "2", "3"}
Whitespace == {" "}

\* str.isalpha() and str.isnumeric() on one character
isalpha(char) == char \in Letters
isnumeric(char) == char \in Digits

\* str.strip(): leading and trailing whitespace removed
RECURSIVE lstrip(_)
lstrip(s) ==
    IF s # <<>> /\ Head(s) \in Whitespace THEN lstrip(Tail(s)) ELSE s

RECURSIVE rstrip(_)
rstrip(s) ==
    IF s # <<>> /\ s[Len(s)] \in Whitespace
    THEN rstrip(SubSeq(s, 1, Len(s) - 1))
    ELSE s

strip(s) == rstrip(lstrip(s))

\* the empty dict
EmptyDict == [t \in {} |-> 0]

Top(stack) == stack[Len(stack)]
Pop(stack) == SubSeq(stack, 1, Len(stack) - 1)

---------------------------------------------------------------------------
(* InvertedIndex *)

\* collect_content: the texts of the elements of a container, concatenated
RECURSIVE collect_content(_)
collect_content(container) ==
    IF container = <<>> THEN <<>>
    ELSE Head(container) \o collect_content(Tail(container))

\* the order in which populate_inverted_index concatenates the fields
FieldOrder == <<"TITLE", "HEADING", "TEXT">>

\* content, for the fields taken in the given order
ContentOf(document, order) ==
    collect_content(document[order[1]])
        \o collect_content(document[order[2]])
        \o collect_content(document[order[3]])

\* lines 51-56: self.inverted_index[term].add(doc_id), the set created on the
\* term's first insertion; st = [index, heap, emitted]
AddPosting(st, term, doc_id) ==
    IF term \in DOMAIN st.index
    THEN [index |-> st.index,
          heap |-> [st.heap EXCEPT ![st.index[term]] = @ \cup {doc_id}],
          emitted |-> Append(st.emitted, term)]
    ELSE LET ref == Len(st.heap) + 1
         IN [index |-> (term :> ref) @@ st.index,
             heap |-> Append(st.heap, {doc_id}),
             emitted |-> Append(st.emitted, term)]

\* lines 43-58: the loop over the characters of content, from position i
\* with the accumulator term; the loop ends with the content and what is
\* left in term is not inserted
RECURSIVE ScanContent(_, _, _, _, _)
ScanContent(content, i, term, st, doc_id) ==
    IF i > Len(content) THEN st
    ELSE LET char == content[i]
         IN IF isnumeric(char) \/ isalpha(char)
            THEN ScanContent(content, i + 1, Append(term, char), st, doc_id)
            ELSE IF strip(term) = <<>>
                 THEN ScanContent(content, i + 1, term, st, doc_id)
                 ELSE ScanContent(content, i + 1, <<>>,
                                  AddPosting(st, term, doc_id), doc_id)

\* populate_inverted_index with the fields concatenated in the given order
PopulateInOrder(st, document, doc_id, order) ==
    ScanContent(ContentOf(document, order), 1, <<>>,
                [st EXCEPT !.emitted = <<>>], doc_id)

populate_inverted_index(st, document, doc_id) ==
    PopulateInOrder(st, document, doc_id, FieldOrder)

\* generate_inverted_index over the documents from position i
RECURSIVE GenerateInOrder(_, _, _, _)
GenerateInOrder(st, documents, i, order) ==
    IF i > Len(documents) THEN st
    ELSE GenerateInOrder(
             PopulateInOrder(st, documents[i], documents[i].DOCID, order),
             documents, i + 1, order)

generate_inverted_index(st, documents) ==
    GenerateInOrder(st, documents, 1, FieldOrder)

\* InvertedIndex.__init__ before the first file is read
EmptyIndex == [index |-> EmptyDict, heap |-> <<>>, emitted |-> <<>>]

\* the contents of an index: term -> set of document ids
Contents(index, h) == [t \in DOMAIN index |-> h[index[t]]]


---------------------------------------------------------------------------
(* QueryEvaluator *)

AND == <<"A", "N", "D">>
OR == <<"O", "R">>
NOT == <<"N", "O", "T">>
\* the third argument of perform_operation at line 143
difference == <<"d", "i", "f", "f", "e", "r", "e", "n", "c", "e">>

\* str.split(): the maximal runs of non-whitespace characters of s from
\* position i, word being the run read so far
RECURSIVE SplitFrom(_, _, _)
SplitFrom(s, i, word) ==
    IF i > Len(s) THEN (IF word = <<>> THEN <<>> ELSE <<word>>)
    ELSE IF s[i] \in Whitespace
         THEN (IF word = <<>> THEN <<>> ELSE <<word>>) \o SplitFrom(s, i + 1, <<>>)
         ELSE SplitFrom(s, i + 1, Append(word, s[i]))

split(s) == SplitFrom(s, 1, <<>>)

\* AND binding tighter than OR, as in most query languages
precedence_conventional(op) ==
    IF op = OR THEN 1 ELSE IF op = AND THEN 2 ELSE 3

precedence(op) == IF op = AND \/ op = OR THEN 1 ELSE 2

is_operator(elem) == elem = AND \/ elem = OR \/ elem = NOT

\* union that adds the elements of the smaller set to the larger one and
\* returns the larger one, as the commented-out union at lines 191-197
perform_operation_inplace(h, posting1, posting2, op) ==
    IF op = AND
    THEN [heap |-> Append(h, h[posting1] \cap h[posting2]), ref |-> Len(h) + 1]
    ELSE IF op = OR
         THEN LET swap == Cardinality(h[posting1]) > Cardinality(h[posting2])
                  a == IF swap THEN posting2 ELSE posting1
                  b == IF swap THEN posting1 ELSE posting2
              IN [heap |-> [h EXCEPT ![b] = @ \cup h[a]], ref |-> b]
         ELSE [heap |-> Append(h, h[posting2] \ h[posting1]), ref |-> Len(h) + 1]

\* the difference taken the other way round: posting1 - posting2
perform_operation_swapped(h, posting1, posting2, op) ==
    LET result == IF op = AND THEN h[posting1] \cap h[posting2]
                  ELSE IF op = OR THEN h[posting1] \cup h[posting2]
                  ELSE h[posting1] \ h[posting2]
    IN [heap |-> Append(h, result), ref |-> Len(h) + 1]

\* perform_operation: the result is a new set object; [heap, ref]
perform_operation(h, posting1, posting2, op) ==
    LET result == IF op = AND THEN h[posting1] \cap h[posting2]
                  ELSE IF op = OR THEN h[posting1] \cup h[posting2]
                  ELSE h[posting2] \ h[posting1]
    IN [heap |-> Append(h, result), ref |-> Len(h) + 1]

\* lines 119-124: the reductions before elem is pushed; ev = [values, ops,
\* heap, ok], ok false when a pop from an empty list raised IndexError
RECURSIVE ReduceWhile(_, _)
ReduceWhile(ev, elem) ==
    IF Len(ev.ops) # 0 /\ precedence(Top(ev.ops)) >= precedence(elem)
    THEN IF Len(ev.values) < 2
         THEN [ev EXCEPT !.values = <<>>, !.ok = FALSE]
         ELSE LET val1 == Top(ev.values)
                  val2 == Top(Pop(ev.values))
                  op == Top(ev.ops)
                  r == perform_operation(ev.heap, val1, val2, op)
              IN ReduceWhile([values |-> Append(Pop(Pop(ev.values)), r.ref),
                              ops |-> Pop(ev.ops),
                              heap |-> r.heap,
                              ok |-> TRUE], elem)
    ELSE ev

\* an unknown term taken as no constraint: it matches every document
Postings_unknown_matches_all(h, index, elem) ==
    IF elem \in DOMAIN index
    THEN [heap |-> h, ref |-> index[elem]]
    ELSE [heap |-> Append(h, UNION {h[r] : r \in 1..Len(h)}), ref |-> Len(h) + 1]

\* lines 129-133: the postings of a term token; set() is a new object
Postings(h, index, elem) ==
    IF elem \in DOMAIN index
    THEN [heap |-> h, ref |-> index[elem]]
    ELSE [heap |-> Append(h, {}), ref |-> Len(h) + 1]

---------------------------------------------------------------------------
(* Inputs *)

IndexChars == {"a", "1", " ", "-"}

\* the example of the tokenizer: a1 b-2!!c3
ExampleText == <<"a", "1", " ", "b", "-", "2", "!", "!", "c", "3">>

Texts == UNION {[1..n -> IndexChars] : n \in 0..MaxLen} \cup {ExampleText}

\* what find_all returns: the elements of a tag, here none or one
Containers == {<<>>} \cup {<<t>> : t \in Texts}

DocIds == 1..NDocs

Documents ==
    [DOCID : DocIds, TITLE : Containers, HEADING : Containers, TEXT : Containers]

\* the corpora behind the index that the queries are run on: document i has
\* one TEXT element
EvalTexts == {<<>>, <<"X", " ">>, <<"Y", " ">>, <<"X", " ", "Y", " ">>}

EvalDocument(i, t) == [DOCID |-> i, TITLE |-> <<>>, HEADING |-> <<>>, TEXT |-> <<t>>]

EvalCorpora == {[i \in 1..NDocs |-> EvalDocument(i, f[i])] : f \in [1..NDocs -> EvalTexts]}

TermTokens == {<<"X">>, <<"Y">>}
Operators == {AND, OR, NOT}
Tokens == TermTokens \cup Operators

TokenSeqs(n) == UNION {[1..k -> Tokens] : k \in 0..n}

\* one AND/OR operator, an optional NOT, and a term
Groups ==
    {<<op, t>> : op \in {AND, OR}, t \in TermTokens}
        \cup {<<op, NOT, t>> : op \in {AND, OR}, t \in TermTokens}

\* a term followed by exactly g groups
RECURSIVE WellFormedSeqs(_)
WellFormedSeqs(g) ==
    IF g = 0 THEN {<<t>> : t \in TermTokens}
    ELSE {q \o grp : q \in WellFormedSeqs(g - 1), grp \in Groups}

\* the text of a query: its tokens separated by one blank
RECURSIVE Join(_)
Join(ts) ==
    IF ts = <<>> THEN <<>>
    ELSE IF Len(ts) = 1 THEN ts[1]
    ELSE ts[1] \o <<" ">> \o Join(Tail(ts))

Queries ==
    {Join(ts) : ts \in TokenSeqs(MaxTokens)
                         \cup UNION {WellFormedSeqs(g) : g \in 0..MaxGroups}}

BatchQueries == {Join(ts) : ts \in TokenSeqs(MaxTokens)}

---------------------------------------------------------------------------
(* The program *)

\* InvertedIndex() at line 218 with the evaluator not yet created
NoEvaluator ==
    /\ qi = 0
    /\ query = <<>>
    /\ tokens = <<>>
    /\ pos = 0
    /\ values = <<>>
    /\ ops = <<>>
    /\ res = 0
    /\ stored = {}

\* the construction of the index starts: no file read yet
InitIndex ==
    /\ corpus = <<>>
    /\ emitted = <<>>
    /\ inverted_index = EmptyDict
    /\ heap = <<>>
    /\ built = EmptyDict
    /\ nqueries = 0
    /\ NoEvaluator
    /\ pc = "build"

\* main after InvertedIndex() and Query(): the index is the one built from
\* a corpus, n queries were read
InitMain(counts) ==
    /\ corpus \in EvalCorpora
    /\ LET st == generate_inverted_index(EmptyIndex, corpus)
       IN /\ emitted = st.emitted
          /\ inverted_index = st.index
          /\ heap = st.heap
          /\ built = Contents(st.index, st.heap)
    /\ nqueries \in counts
    /\ NoEvaluator
    /\ pc = "main"

Init == InitMain({1})

InitBatch == InitMain(0..MaxQueries)

\* generate_inverted_index, one document: lines 28-30
PopulateDocument ==
    /\ pc = "build"
    /\ Len(corpus) < MaxDocs
    /\ \E document \in Documents :
          LET st == populate_inverted_index(
                        [index |-> inverted_index, heap |-> heap, emitted |-> emitted],
                        document, document.DOCID)
          IN /\ corpus' = Append(corpus, document)
             /\ emitted' = st.emitted
             /\ inverted_index' = st.index
             /\ heap' = st.heap
    /\ UNCHANGED <<built, pc>>
    /\ UNCHANGED evalVars

\* lines 221-224: the next query of the list, a new QueryEvaluator, and
\* the call of evaluate on query.split()
NextQuery(texts) ==
    /\ pc = "main"
    /\ qi < nqueries
    /\ \E q \in texts :
          /\ query' = q
          /\ tokens' = split(q)
    /\ qi' = qi + 1
    /\ pos' = 0
    /\ values' = <<>>
    /\ ops' = <<>>
    /\ res' = 0
    /\ pc' = "evaluate"
    /\ UNCHANGED <<corpus, emitted, inverted_index, heap, built, nqueries, stored>>

\* lines 117-126: an operator token
EvalOperator ==
    /\ pc = "evaluate"
    /\ pos < Len(tokens)
    /\ is_operator(tokens[pos + 1])
    /\ LET elem == tokens[pos + 1]
           ev == ReduceWhile([values |-> values, ops |-> ops, heap |-> heap,
                              ok |-> TRUE], elem)
       IN /\ heap' = ev.heap
          /\ values' = ev.values
          /\ IF ev.ok
             THEN /\ ops' = Append(ev.ops, elem)
                  /\ pos' = pos + 1
                  /\ pc' = "evaluate"
             ELSE /\ ops' = ev.ops
                  /\ pos' = pos
                  /\ pc' = "failed"
    /\ UNCHANGED <<corpus, emitted, inverted_index, built, nqueries, qi, query,
                   tokens, res, stored>>

\* lines 127-133: a term token
EvalTerm ==
    /\ pc = "evaluate"
    /\ pos < Len(tokens)
    /\ ~is_operator(tokens[pos + 1])
    /\ LET postings == Postings(heap, inverted_index, tokens[pos + 1])
       IN /\ heap' = postings.heap
          /\ values' = Append(values, postings.ref)
    /\ pos' = pos + 1
    /\ UNCHANGED <<corpus, emitted, inverted_index, built, nqueries, qi, query,
                   tokens, ops, res, stored, pc>>

\* lines 136-145: one iteration of the final loop over self.ops
Drain ==
    /\ pc = "evaluate"
    /\ pos = Len(tokens)
    /\ Len(ops) # 0
    /\ LET first_op == Top(ops)
           ops1 == Pop(ops)
       IN IF Len(values) < 2
          THEN \* values.pop() of an empty list
               /\ values' = <<>>
               /\ ops' = ops1
               /\ heap' = heap
               /\ pc' = "failed"
          ELSE LET val1 == Top(values)
                   val2 == Top(Pop(values))
                   values1 == Pop(Pop(values))
               IN IF first_op = NOT
                  THEN IF Len(ops1) = 0
                       THEN \* self.ops.pop() of an empty list
                            /\ values' = values1
                            /\ ops' = ops1
                            /\ heap' = heap
                            /\ pc' = "failed"
                       ELSE LET r == perform_operation(heap, val1, val2, difference)
                            IN /\ values' = Append(values1, r.ref)
                               /\ ops' = Pop(ops1)
                               /\ heap' = r.heap
                               /\ pc' = "evaluate"
                  ELSE LET r == perform_operation(heap, val1, val2, first_op)
                       IN /\ values' = Append(values1, r.ref)
                          /\ ops' = ops1
                          /\ heap' = r.heap
                          /\ pc' = "evaluate"
    /\ UNCHANGED <<corpus, emitted, inverted_index, built, nqueries, qi, query,
                   tokens, pos, res, stored>>

\* line 147: return self.values[-1]
Return ==
    /\ pc = "evaluate"
    /\ pos = Len(tokens)
    /\ Len(ops) = 0
    /\ IF Len(values) = 0
       THEN /\ res' = res
            /\ pc' = "failed"
       ELSE /\ res' = Top(values)
            /\ pc' = "store"
    /\ UNCHANGED <<corpus, emitted, inverted_index, heap, built, nqueries, qi,
                   query, tokens, pos, values, ops, stored>>

\* line 226: store, which reads the result and writes the file of the
\* query.  The iteration of the loop ends here: its evaluator, query and
\* result are not used again (lines 221-224 replace them), and the sets
\* that only they held are gone
Store ==
    /\ pc = "store"
    /\ stored' = stored \cup {qi}
    /\ query' = <<>>
    /\ tokens' = <<>>
    /\ pos' = 0
    /\ values' = <<>>
    /\ ops' = <<>>
    /\ res' = 0
    /\ heap' = SubSeq(heap, 1, Cardinality(DOMAIN inverted_index))
    /\ pc' = "main"
    /\ UNCHANGED <<corpus, emitted, inverted_index, built, nqueries, qi>>

\* the loop of main is over
Finish ==
    /\ pc = "main"
    /\ qi = nqueries
    /\ pc' = "done"
    /\ UNCHANGED <<corpus, emitted, inverted_index, heap, built, nqueries, qi,
                   query, tokens, pos, values, ops, res, stored>>

\* pc = "failed": the IndexError leaves evaluate and main, which has no
\* handler; no step follows

Next ==
    \/ NextQuery(Queries)
    \/ EvalOperator
    \/ EvalTerm
    \/ Drain
    \/ Return
    \/ Store
    \/ Finish

NextBatch ==
    \/ NextQuery(BatchQueries)
    \/ EvalOperator
    \/ EvalTerm
    \/ Drain
    \/ Return
    \/ Store
    \/ Finish

NextIndex == PopulateDocument

\* one query evaluated on a new evaluator
Spec == Init /\ [][Next]_vars

\* main over a list of queries
SpecMain == InitBatch /\ [][NextBatch]_vars

\* the construction of the index
SpecIndex == InitIndex /\ [][NextIndex]_vars

---------------------------------------------------------------------------
(* Definitions the properties are stated with *)

isalnum(char) == isalpha(char) \/ isnumeric(char)

\* the maximal runs of alphanumeric characters of s that start at position
\* i or later, in left-to-right order
RECURSIVE RunsFrom(_, _)
RunsFrom(s, i) ==
    LET starts == {b \in i..Len(s) :
                      isalnum(s[b]) /\ (b = 1 \/ ~isalnum(s[b - 1]))}
    IN IF starts = {} THEN <<>>
       ELSE LET b == CHOOSE x \in starts : \A y \in starts : x <= y
                e == CHOOSE x \in b..Len(s) :
                        /\ \A k \in b..x : isalnum(s[k])
                        /\ x = Len(s) \/ ~isalnum(s[x + 1])
            IN <<SubSeq(s, b, e)>> \o RunsFrom(s, e + 1)

MaximalRuns(s) == RunsFrom(s, 1)

Range(f) == {f[x] : x \in DOMAIN f}

\* the document populate_inverted_index was last called on
LastDocument == corpus[Len(corpus)]

\* the terms of the three field texts of a document
FieldTerms(document) ==
    UNION {Range(MaximalRuns(collect_content(document[f]))) : f \in Range(FieldOrder)}

\* the three fields in every order
FieldOrders ==
    {o \in [1..3 -> Range(FieldOrder)] : Range(o) = Range(FieldOrder)}

\* the postings of a term in the index as it was built
PostingsOf(t) == IF t \in DOMAIN built THEN built[t] ELSE {}

IsTerm(elem) == ~is_operator(elem)

\* a term, then groups of one AND/OR, an optional NOT, and a term
RECURSIVE IsGroups(_)
IsGroups(ts) ==
    \/ ts = <<>>
    \/ /\ Len(ts) >= 2
       /\ ts[1] \in {AND, OR}
       /\ \/ IsTerm(ts[2]) /\ IsGroups(SubSeq(ts, 3, Len(ts)))
          \/ /\ Len(ts) >= 3
             /\ ts[2] = NOT
             /\ IsTerm(ts[3])
             /\ IsGroups(SubSeq(ts, 4, Len(ts)))

WellFormed(ts) == ts # <<>> /\ IsTerm(ts[1]) /\ IsGroups(Tail(ts))

NotFree(ts) == \A i \in 1..Len(ts) : ts[i] # NOT

\* the left-to-right fold of t0 op1 t1 ... opn tn over the first n tokens
RECURSIVE LeftFold(_, _)
LeftFold(ts, n) ==
    IF n = 1 THEN PostingsOf(ts[1])
    ELSE IF ts[n - 1] = AND
         THEN LeftFold(ts, n - 2) \cap PostingsOf(ts[n])
         ELSE LeftFold(ts, n - 2) \cup PostingsOf(ts[n])

LeadingOperator(ts) == ts # <<>> /\ is_operator(ts[1])
TrailingOperator(ts) == ts # <<>> /\ is_operator(ts[Len(ts)])
AdjacentTerms(ts) == \E i \in 1..(Len(ts) - 1) : IsTerm(ts[i]) /\ IsTerm(ts[i + 1])

Malformed(ts) == LeadingOperator(ts) \/ TrailingOperator(ts) \/ AdjacentTerms(ts)

\* evaluate has been called on the query
Called == pc \in {"evaluate", "store", "failed"}

\* evaluate has returned a postings set
Returned == pc = "store"

IndexRefs == Range(inverted_index)

---------------------------------------------------------------------------
(* Properties *)

\* C1: the terms populate_inverted_index emits for a content are exactly its
\* maximal runs of alphanumeric characters, in left-to-right order, the run
\* that ends at the end of the content included.
C1_EmitsMaximalRuns ==
    (pc = "build" /\ corpus # <<>>)
        => emitted = MaximalRuns(ContentOf(LastDocument, FieldOrder))

\* C2: D is in index[T] iff T is a maximal alphanumeric run of the text of
\* one of the TITLE, HEADING, TEXT fields of a document with id D, and no
\* key of the index has an empty postings set.
C2_IndexIffTermOccurs ==
    pc = "build" =>
        /\ \A t \in DOMAIN inverted_index : heap[inverted_index[t]] # {}
        /\ \A D \in DocIds :
              \A T \in DOMAIN inverted_index
                         \cup UNION {FieldTerms(corpus[i]) : i \in 1..Len(corpus)} :
                 (T \in DOMAIN inverted_index /\ D \in heap[inverted_index[T]])
                     <=> \E i \in 1..Len(corpus) :
                            corpus[i].DOCID = D /\ T \in FieldTerms(corpus[i])

\* C9: the index built with the three field texts concatenated in any order
\* is the index built in the order TITLE, HEADING, TEXT.
C9_FieldOrderIrrelevant ==
    pc = "build" =>
        \A order \in FieldOrders :
            LET st == GenerateInOrder(EmptyIndex, corpus, 1, order)
            IN Contents(st.index, st.heap) = Contents(inverted_index, heap)

\* C3: a well-formed query never underflows a stack, and evaluate returns
\* with the operator stack empty and exactly one value on the value stack,
\* the returned one.
C3_WellFormedNeverUnderflows ==
    (Called /\ WellFormed(tokens)) =>
        /\ pc # "failed"
        /\ Returned => (ops = <<>> /\ Len(values) = 1 /\ res = values[1])

\* C4: a well-formed query without NOT returns the left-to-right fold of
\* its terms' postings (AND intersection, OR union), and at most one
\* operator is ever on the operator stack: an earlier operator is reduced
\* before a later one is pushed.
C4_LeftToRightFold ==
    (Called /\ WellFormed(tokens) /\ NotFree(tokens)) =>
        /\ pc # "failed"
        /\ Len(ops) <= 1
        /\ Returned => heap[res] = LeftFold(tokens, Len(tokens))

\* C4, witness: X AND Y OR Z has returned and its result is not what
\* reducing the OR first would give.
C4_Witness ==
    /\ Returned
    /\ Len(tokens) = 5
    /\ WellFormed(tokens)
    /\ tokens[2] = AND
    /\ tokens[4] = OR
    /\ heap[res] = (PostingsOf(tokens[1]) \cap PostingsOf(tokens[3]))
                       \cup PostingsOf(tokens[5])
    /\ heap[res] # PostingsOf(tokens[1])
                       \cap (PostingsOf(tokens[3]) \cup PostingsOf(tokens[5]))

\* C5: a malformed token stream (a leading operator, a trailing operator or
\* two adjacent terms) never makes evaluate return a postings set.
C5_MalformedFails ==
    (Called /\ Malformed(tokens)) => ~Returned

\* C6: when main has stopped after a query failed, the result of every
\* query after the failing one has been stored, and the index is as built.
C6_FailureLocalToQuery ==
    (pc = "failed" /\ ~ENABLED NextBatch) =>
        /\ \A j \in (qi + 1)..nqueries : j \in stored
        /\ Contents(inverted_index, heap) = built

\* C7: evaluation never changes the index: it keeps its keys, every key
\* keeps its set object and the object its contents; and every reduction
\* that pushes its result pushes a set object that did not exist before.
C7_IndexUnchanged ==
    /\ DOMAIN inverted_index = DOMAIN built
    /\ \A t \in DOMAIN built : heap[inverted_index[t]] = built[t]
    /\ IndexRefs = 1..Cardinality(DOMAIN built)

C7_ReductionPushesNewSet ==
    (pc = "evaluate" /\ pc' = "evaluate" /\ Len(values') < Len(values))
        => /\ values'[Len(values')] \notin 1..Len(heap)
           /\ \A r \in 1..Len(heap) : heap'[r] = heap[r]
           /\ inverted_index' = inverted_index

C7_EvaluationNeverMutatesIndex ==
    [](C7_IndexUnchanged) /\ [][C7_ReductionPushesNewSet]_vars

\* C7, witness: in the second query of a batch, X OR Y over two terms of
\* the index has returned a set that is neither term's postings.
C7_Witness ==
    /\ Returned
    /\ qi = 2
    /\ Len(tokens) = 3
    /\ tokens[2] = OR
    /\ tokens[1] \in DOMAIN inverted_index
    /\ tokens[3] \in DOMAIN inverted_index
    /\ heap[res] # built[tokens[1]]
    /\ heap[res] # built[tokens[3]]
    /\ res \notin IndexRefs

\* C8: a term that is no key of the index resolves to the empty set and is
\* no error: for Q absent from the index, the query Q returns the empty
\* set, Q AND X returns the empty set and Q OR X returns the postings of X.
C8_AbsentTermIsEmpty ==
    /\ (Called /\ Len(tokens) = 1 /\ IsTerm(tokens[1])
            /\ tokens[1] \notin DOMAIN built)
           => /\ pc # "failed"
              /\ Returned => heap[res] = {}
    /\ (Called /\ Len(tokens) = 3 /\ IsTerm(tokens[1]) /\ IsTerm(tokens[3])
            /\ tokens[2] \in {AND, OR} /\ tokens[1] \notin DOMAIN built)
           => /\ pc # "failed"
              /\ Returned =>
                    heap[res] = IF tokens[2] = AND THEN {}
                                ELSE PostingsOf(tokens[3])

\* C8, witness: Q OR X has returned, Q absent from the index and X in it.
C8_Witness ==
    /\ Returned
    /\ Len(tokens) = 3
    /\ tokens[2] = OR
    /\ IsTerm(tokens[1])
    /\ tokens[1] \notin DOMAIN built
    /\ tokens[3] \in DOMAIN built
    /\ heap[res] = built[tokens[3]]

\* C10: when the final loop finds NOT on top of the operator stack it
\* discards the operator below it and pushes v2 - v1: a NOT-free well-formed
\* query q followed by AND NOT B or by OR NOT B returns the fold of q minus
\* the postings of B (so A AND NOT B and A OR NOT B both return
\* postings(A) - postings(B)), and NOT A fails with a stack underflow.
C10_DrainWithNotOnTop ==
    /\ (Called /\ Len(tokens) >= 4
            /\ WellFormed(SubSeq(tokens, 1, Len(tokens) - 3))
            /\ NotFree(SubSeq(tokens, 1, Len(tokens) - 3))
            /\ tokens[Len(tokens) - 2] \in {AND, OR}
            /\ tokens[Len(tokens) - 1] = NOT
            /\ IsTerm(tokens[Len(tokens)]))
           => /\ pc # "failed"
              /\ Returned =>
                    /\ heap[res] = LeftFold(tokens, Len(tokens) - 3)
                                       \ PostingsOf(tokens[Len(tokens)])
                    /\ ops = <<>>
                    /\ Len(values) = 1
    /\ (Called /\ Len(tokens) = 2 /\ tokens[1] = NOT /\ IsTerm(tokens[2]))
           => /\ ~Returned
              /\ ~ENABLED Next => pc = "failed"

\* C10, witness: A OR NOT B has returned postings(A) - postings(B), which
\* is not the union of postings(A) with anything.
C10_Witness ==
    /\ Returned
    /\ Len(tokens) = 4
    /\ tokens[2] = OR
    /\ tokens[3] = NOT
    /\ PostingsOf(tokens[1]) \cap PostingsOf(tokens[4]) # {}
    /\ heap[res] = PostingsOf(tokens[1]) \ PostingsOf(tokens[4])
    /\ heap[res] # {}

=============================================================================
